---- MODULE Spec2Model ----
(***************************************************************************)
(* lock-generations: selective protection of NixOS system generations.     *)
(*                                                                         *)
(* Spec       one invocation of the command line tool (protect, unprotect, *)
(*            clean, list) against a protection store file and a           *)
(*            NixOsCommandRunner (the mock runner of the test suite).      *)
(* SpecState  a ProtectedState object driven through its methods           *)
(*            (protect, unprotect, save_to, load_from).                    *)
(* SpecPath   one resolution of the store location from the environment.   *)
(* SpecSave   one save_to, system call by system call, any of which may    *)
(*            fail.                                                        *)
(* SpecConc   two protect commands against the same store, their system    *)
(*            calls interleaved.                                           *)
(* SpecSeq    commands run one after another against one store and runner. *)
(* SpecTwice  clean commands run back to back against one store and runner.*)
(* SpecReal   one query of RealNixOsRunner over any output of nix-env.     *)
(***************************************************************************)
EXTENDS Integers, Sequences, FiniteSets, TLC

\* Generation numbers (u32) are drawn from 1..MaxId.
MaxId == 3

Ids == 1 .. MaxId

\* Option<usize> of --keep-last: None, or Some(n) with n up to past the list length.
None == << >>

Some(n) == << n >>

KeepLastValues == {None} \cup {Some(n) : n \in 0 .. (MaxId + 1)}

Range(s) == {s[i] : i \in 1 .. Len(s)}

\* Sequences over S without repetition (a Vec of unique ids, a JSON array of a set).
InjSeqs(S) ==
    UNION {{s \in [1 .. n -> S] : \A i, j \in 1 .. n : s[i] = s[j] => i = j}
              : n \in 0 .. Cardinality(S)}

VARIABLES
    \* MockNixOsRunner
    generations,            \* Vec<u32>
    current_generation,     \* u32
    deleted_generations,    \* RefCell<HashSet<u32>>
    fail_on_delete,         \* bool
    \* the protection store file protected.json
    file,                   \* [exists, contents]: contents is the JSON array
    \* ProtectedState (in memory)
    protected_generations,  \* HashSet<u32>
    \* the invocation
    pc,                     \* "start" | "done"
    op,                     \* the command or method that ran last
    generation,             \* argument of protect / unprotect
    keep_last,              \* argument of clean, once the run reads it
    dry_run,                \* argument of clean
    fault,                  \* which collaborator call failed in the run
    result,                 \* "Ok" | "Err" | "Panic"
    ret,                    \* bool returned by protect / unprotect
    current,                \* clean: what get_current_generation returned
    all_generations,        \* clean: what list_generations returned
    to_delete,              \* clean: the deletion decision
    delete_calls,           \* clean: arguments of each delete_generations call
    output,                 \* list: the generation numbers printed
    \* the file system under the store's directory, at the level of system calls
    fs,                     \* [inodes, tmp, path, renames]
    writers,                \* per concurrent invocation: its position and locals
    \* default_config_path
    env,                    \* the environment variables and the user database
    config_path,            \* the Result of default_config_path
    \* across invocations
    locked,                 \* ids whose last protect / unprotect command was a protect
    \* RealNixOsRunner
    stdout,                 \* what nix-env --list-generations printed, line by line
    parsed                  \* what the runner's query made of it

runner == << generations, current_generation, deleted_generations, fail_on_delete >>

invocation ==
    << pc, op, generation, keep_last, dry_run, fault, result, ret, current,
       all_generations, to_delete, delete_calls, output >>

others == << fs, writers, env, config_path, locked, stdout, parsed >>

vars == << runner, file, protected_generations, invocation, others >>

-----------------------------------------------------------------------------
(* command_runner.rs *)

Generation(n) == [number |-> n]

-----------------------------------------------------------------------------
(* mock_runner.rs *)

\* generations.iter().filter(|g| !deleted.contains(g)).map(Generation).collect()
list_generations ==
    LET kept == SelectSeq(generations, LAMBDA g : g \notin deleted_generations)
    IN  [i \in 1 .. Len(kept) |-> Generation(kept[i])]

get_current_generation == current_generation

\* Err on fail_on_delete or when asked to delete the current generation;
\* otherwise every id is marked deleted.
delete_generations(gens) ==
    IF fail_on_delete
    THEN [ok |-> FALSE, deleted |-> deleted_generations]
    ELSE IF current_generation \in Range(gens)
         THEN [ok |-> FALSE, deleted |-> deleted_generations]
         ELSE [ok |-> TRUE, deleted |-> deleted_generations \cup Range(gens)]

-----------------------------------------------------------------------------
(* protected_state.rs *)

NoFile == [exists |-> FALSE, contents |-> << >>]

FileOf(contents) == [exists |-> TRUE, contents |-> contents]

new == {}

\* serde_json::to_string_pretty of a HashSet<u32>: the members as a JSON array,
\* in the set's iteration order, which is unspecified.
to_string_pretty(set) == {s \in [1 .. Cardinality(set) -> set] : Range(s) = set}

\* Mutant of from_str: the first element of the array is skipped.
from_str_skips_first(contents) == {contents[i] : i \in 2 .. Len(contents)}

\* serde_json::from_str into a HashSet<u32>: the array's elements, inserted one by one.
from_str(contents) == {contents[i] : i \in 1 .. Len(contents)}

\* Mutant of load_from: the stored file is ignored.
load_from_ignoring_file(f) == new

load_from(f) == IF ~f.exists THEN new ELSE from_str(f.contents)

\* fs::read_to_string: Err when nothing is at the path.
read_to_string(f) == [ok |-> f.exists, contents |-> f.contents]

\* Mutant of load_from_result: reads without asking whether the path exists.
load_from_result_unchecked(f, flt) ==
    IF ~read_to_string(f).ok \/ flt = "load"
    THEN [ok |-> FALSE, state |-> new]
    ELSE [ok |-> TRUE, state |-> from_str(read_to_string(f).contents)]

\* load_from as a Result: Ok(new()) when the path does not exist; otherwise the
\* parsed contents, or Err when reading or parsing fails (flt).
load_from_result(f, flt) ==
    IF ~f.exists
    THEN [ok |-> TRUE, state |-> new]
    ELSE IF ~read_to_string(f).ok \/ flt = "load"
         THEN [ok |-> FALSE, state |-> new]
         ELSE [ok |-> TRUE, state |-> from_str(read_to_string(f).contents)]

\* The documents save_to may leave at the path: temp file written, then renamed.
save_to(set) == {FileOf(contents) : contents \in to_string_pretty(set)}

\* Mutant of protect: reports whether the value was present.
protect_returns_present(set, g) == [set |-> set \cup {g}, ret |-> g \in set]

\* Mutant of protect: reports the insertion without inserting.
protect_without_insert(set, g) == [set |-> set, ret |-> g \notin set]

\* HashSet::insert: true when the value was not present.
protect(set, g) == [set |-> set \cup {g}, ret |-> g \notin set]

\* Mutant of unprotect: reports the removal without removing.
unprotect_keeps_member(set, g) == [set |-> set, ret |-> g \in set]

\* HashSet::remove: true when the value was present.
unprotect(set, g) == [set |-> set \ {g}, ret |-> g \in set]


\* The orders in which iterating a HashSet may yield its members.
iter(set) == {s \in [1 .. Cardinality(set) -> set] : Range(s) = set}

-----------------------------------------------------------------------------
(* main.rs: clean_generations *)

\* Mutant of sort_unstable: the elements stay in the order they came in.
sort_unstable_keeps_order(v) == v

RECURSIVE sort_unstable(_)
\* Vec::sort_unstable on u32: ascending, equal elements kept.
sort_unstable(v) ==
    IF v = << >>
    THEN << >>
    ELSE LET m == CHOOSE x \in Range(v) : \A y \in Range(v) : x <= y
             i == CHOOSE k \in 1 .. Len(v) : v[k] = m
             rest == [k \in 1 .. (Len(v) - 1) |-> IF k < i THEN v[k] ELSE v[k + 1]]
         IN  << m >> \o sort_unstable(rest)

\* Mutant of gen_numbers_of: the numbers in listing order, never sorted.
gen_numbers_unsorted(gens) == [i \in 1 .. Len(gens) |-> gens[i].number]

\* all_generations.iter().map(|g| g.number).collect(), then sort_unstable()
gen_numbers_of(gens) == sort_unstable([i \in 1 .. Len(gens) |-> gens[i].number])

\* Mutant of saturating_sub: checked_sub(b).unwrap_or(a), nothing kept when b > a.
checked_sub_or_len(a, b) == IF b > a THEN a ELSE a - b

\* Mutant of saturating_sub: one element more than asked for.
saturating_sub_off_by_one(a, b) == IF b + 1 >= a THEN 0 ELSE a - b - 1

\* Mutant of saturating_sub: plain subtraction, out of range when b > a.
unchecked_sub(a, b) == a - b

\* usize::saturating_sub
saturating_sub(a, b) == IF b >= a THEN 0 ELSE a - b

\* &v[start_index..]: panics unless start_index <= v.len()
slice_from(v, start_index) ==
    [ok  |-> start_index >= 0 /\ start_index <= Len(v),
     val |-> IF start_index >= 0 /\ start_index <= Len(v)
             THEN SubSeq(v, start_index + 1, Len(v))
             ELSE << >>]

\* Mutant of keep_last_slice: skips the n oldest and keeps all the others.
keep_last_slice_skipping_oldest(gen_numbers, kl) ==
    IF kl = None
    THEN [ok |-> TRUE, val |-> << >>]
    ELSE slice_from(gen_numbers,
                    IF kl[1] > Len(gen_numbers) THEN Len(gen_numbers) ELSE kl[1])

\* Mutant of keep_last_slice: always keeps at least the newest generation.
keep_last_slice_at_least_one(gen_numbers, kl) ==
    IF kl = None
    THEN [ok |-> TRUE, val |-> << >>]
    ELSE slice_from(gen_numbers,
                    saturating_sub(Len(gen_numbers), IF kl[1] = 0 THEN 1 ELSE kl[1]))

\* if let Some(n) = keep_last { &gen_numbers[len.saturating_sub(n)..] }
keep_last_slice(gen_numbers, kl) ==
    IF kl = None
    THEN [ok |-> TRUE, val |-> << >>]
    ELSE slice_from(gen_numbers, saturating_sub(Len(gen_numbers), kl[1]))

\* Mutant of keep: the current generation is not inserted.
keep_without_current(cur, protected, last) == protected \cup Range(last)

\* Mutant of keep: the protected generations are not inserted.
keep_without_protected(cur, protected, last) == {cur} \cup Range(last)

\* keep: the current generation, the protected ones, the last n.
keep(cur, protected, last) == {cur} \cup protected \cup Range(last)

\* Mutant of filter_not_kept: walks the numeric range first..=last, not the known ids.
filter_range_not_kept(gen_numbers, kept) ==
    IF gen_numbers = << >>
    THEN << >>
    ELSE LET lo == gen_numbers[1]
             hi == gen_numbers[Len(gen_numbers)]
         IN  SelectSeq([i \in 1 .. (hi - lo + 1) |-> lo + i - 1], LAMBDA g : g \notin kept)

\* gen_numbers.iter().filter(|&&g| !keep.contains(&g)).copied().collect()
filter_not_kept(gen_numbers, kept) == SelectSeq(gen_numbers, LAMBDA g : g \notin kept)

\* Mutant of execute: dry_run is not consulted.
execute_ignoring_dry_run(decision, dr) ==
    IF decision = << >>
    THEN [result |-> "Ok", calls |-> << >>, deleted |-> deleted_generations,
          output |-> << >>]
    ELSE LET d == delete_generations(decision)
         IN  [result |-> IF d.ok THEN "Ok" ELSE "Err", calls |-> << decision >>,
              deleted |-> d.deleted, output |-> << >>]

\* Mutant of execute: no early return on an empty decision.
execute_without_empty_check(decision, dr) ==
    IF dr
    THEN [result |-> "Ok", calls |-> << >>, deleted |-> deleted_generations,
          output |-> decision]
    ELSE LET d == delete_generations(decision)
         IN  [result |-> IF d.ok THEN "Ok" ELSE "Err", calls |-> << decision >>,
              deleted |-> d.deleted, output |-> << >>]

\* Mutant of execute: a failed delete_generations is tried once more.
execute_retrying(decision, dr) ==
    IF decision = << >>
    THEN [result |-> "Ok", calls |-> << >>, deleted |-> deleted_generations,
          output |-> << >>]
    ELSE IF dr
         THEN [result |-> "Ok", calls |-> << >>, deleted |-> deleted_generations,
               output |-> decision]
         ELSE LET d == delete_generations(decision)
              IN  [result |-> IF d.ok THEN "Ok" ELSE "Err",
                   calls |-> IF d.ok THEN << decision >> ELSE << decision, decision >>,
                   deleted |-> d.deleted, output |-> << >>]

\* if to_delete.is_empty() { return } if dry_run { print } else { delete_generations }
execute(decision, dr) ==
    IF decision = << >>
    THEN [result |-> "Ok", calls |-> << >>, deleted |-> deleted_generations,
          output |-> << >>]
    ELSE IF dr
         THEN [result |-> "Ok", calls |-> << >>, deleted |-> deleted_generations,
               output |-> decision]
         ELSE LET d == delete_generations(decision)
              IN  [result |-> IF d.ok THEN "Ok" ELSE "Err", calls |-> << decision >>,
                   deleted |-> d.deleted, output |-> << >>]

\* Mutant of store_after_clean: protected ids that are not listed are pruned
\* from the store.
store_after_clean_pruned(f, state, gen_numbers) ==
    IF state \subseteq Range(gen_numbers)
    THEN f
    ELSE CHOOSE pruned \in save_to(state \cap Range(gen_numbers)) : TRUE

\* clean_generations binds the loaded state immutably and never calls save:
\* the store file is the one it loaded from.
store_after_clean(f, state, gen_numbers) == f

CleanFaults == {"none", "load", "current", "list"}

\* The body of clean_generations. flt names the query that returns Err, if any.
clean_run(kl, dr, flt) ==
    /\ op' = "clean"
    /\ dry_run' = dr
    /\ fault' = flt
    /\ file' = IF flt # "none"
               THEN file
               ELSE store_after_clean(file, load_from(file),
                                      gen_numbers_of(list_generations))
    /\ LET state == load_from(file)
           cur == get_current_generation
           listed == list_generations
           gen_numbers == gen_numbers_of(listed)
           last == keep_last_slice(gen_numbers, kl)
           decision == filter_not_kept(gen_numbers, keep(cur, state, last.val))
           run == execute(decision, dr)
       IN  IF flt # "none"
           THEN \* returns at the failing `?`, before keep_last is read
                /\ keep_last' = None
                /\ result' = "Err"
                /\ protected_generations' = IF flt = "load" THEN new ELSE state
                /\ current' = IF flt = "list" THEN cur ELSE 0
                /\ all_generations' = << >>
                /\ to_delete' = << >>
                /\ delete_calls' = << >>
                /\ output' = << >>
                /\ deleted_generations' = deleted_generations
           ELSE /\ keep_last' = kl
                /\ protected_generations' = state
                /\ current' = cur
                /\ all_generations' = listed
                /\ IF ~last.ok
                   THEN /\ result' = "Panic"
                        /\ to_delete' = << >>
                        /\ delete_calls' = << >>
                        /\ output' = << >>
                        /\ deleted_generations' = deleted_generations
                   ELSE /\ result' = run.result
                        /\ to_delete' = decision
                        /\ delete_calls' = run.calls
                        /\ output' = run.output
                        /\ deleted_generations' = run.deleted
    /\ UNCHANGED others
    /\ UNCHANGED << generations, current_generation, fail_on_delete, generation, ret >>

\* One run of the clean command.
clean_generations(kl, dr, flt) ==
    /\ pc = "start"
    /\ pc' = "done"
    /\ clean_run(kl, dr, flt)

-----------------------------------------------------------------------------
(* main.rs: protect_generation, unprotect_generation, list_protected *)

StoreFaults == {"none", "load", "save"}

\* load, then state.protect(generation), then save only when it returned true.
protect_generation(g, flt) ==
    /\ pc = "start"
    /\ pc' = "done"
    /\ op' = "protect"
    /\ generation' = g
    /\ fault' = flt
    /\ LET r == protect(load_from(file), g)
       IN  IF flt = "load"
           THEN /\ result' = "Err"
                /\ protected_generations' = new
                /\ ret' = FALSE
                /\ file' = file
           ELSE /\ flt = "save" => r.ret
                /\ protected_generations' = r.set
                /\ ret' = r.ret
                /\ result' = IF flt = "save" THEN "Err" ELSE "Ok"
                /\ IF r.ret /\ flt = "none"
                   THEN file' \in save_to(r.set)
                   ELSE file' = file
    /\ UNCHANGED others
    /\ UNCHANGED << runner, keep_last, dry_run, current, all_generations, to_delete,
                    delete_calls, output >>

\* load, then state.unprotect(generation), then save only when it returned true.
unprotect_generation(g, flt) ==
    /\ pc = "start"
    /\ pc' = "done"
    /\ op' = "unprotect"
    /\ generation' = g
    /\ fault' = flt
    /\ LET r == unprotect(load_from(file), g)
       IN  IF flt = "load"
           THEN /\ result' = "Err"
                /\ protected_generations' = new
                /\ ret' = FALSE
                /\ file' = file
           ELSE /\ flt = "save" => r.ret
                /\ protected_generations' = r.set
                /\ ret' = r.ret
                /\ result' = IF flt = "save" THEN "Err" ELSE "Ok"
                /\ IF r.ret /\ flt = "none"
                   THEN file' \in save_to(r.set)
                   ELSE file' = file
    /\ UNCHANGED others
    /\ UNCHANGED << runner, keep_last, dry_run, current, all_generations, to_delete,
                    delete_calls, output >>

\* load, collect the set into a Vec, sort_unstable, print each number.
list_protected(flt) ==
    /\ pc = "start"
    /\ pc' = "done"
    /\ op' = "list"
    /\ fault' = flt
    /\ IF flt = "load"
       THEN /\ result' = "Err"
            /\ protected_generations' = new
            /\ output' = << >>
       ELSE /\ result' = "Ok"
            /\ protected_generations' = load_from(file)
            /\ \E v \in iter(load_from(file)) : output' = sort_unstable(v)
    /\ UNCHANGED others
    /\ UNCHANGED << runner, file, generation, keep_last, dry_run, ret, current,
                    all_generations, to_delete, delete_calls >>

-----------------------------------------------------------------------------
(* One invocation of the tool. The store holds what an earlier invocation   *)
(* saved, or nothing; the runner is freshly constructed.                    *)

InvocationInit ==
    /\ pc = "start"
    /\ op = "none"
    /\ generation = 0
    /\ keep_last = None
    /\ dry_run = FALSE
    /\ fault = "none"
    /\ result = "Ok"
    /\ ret = FALSE
    /\ current = 0
    /\ all_generations = << >>
    /\ to_delete = << >>
    /\ delete_calls = << >>
    /\ output = << >>

\* The parts of the state a specification does not use stay as they are here.
OthersInit ==
    /\ fs = [inodes |-> << >>, tmp |-> 0, path |-> 0, renames |-> << >>]
    /\ writers = << >>
    /\ env = << >>
    /\ config_path = << >>
    /\ locked = {}
    /\ stdout = << >>
    /\ parsed = << >>

Init ==
    /\ OthersInit
    /\ generations \in InjSeqs(Ids)
    /\ current_generation \in Ids
    /\ deleted_generations = {}
    /\ fail_on_delete \in BOOLEAN
    /\ file \in {NoFile} \cup {FileOf(c) : c \in InjSeqs(Ids)}
    /\ protected_generations = new
    /\ InvocationInit

Next ==
    \/ \E g \in Ids, flt \in StoreFaults : protect_generation(g, flt)
    \/ \E g \in Ids, flt \in StoreFaults : unprotect_generation(g, flt)
    \/ \E kl \in KeepLastValues, dr \in BOOLEAN, flt \in CleanFaults :
           clean_generations(kl, dr, flt)
    \/ \E flt \in {"none", "load"} : list_protected(flt)

Spec == Init /\ [][Next]_vars

-----------------------------------------------------------------------------
(* Commands run one at a time against one store and one runner. locked is   *)
(* the set of ids whose last successful protect or unprotect command was a  *)
(* protect.                                                                 *)

\* main returns; the next command starts with nothing but the store and the
\* runner carried over.
NextInvocation ==
    /\ pc = "done"
    /\ pc' = "start"
    /\ op' = "none"
    /\ generation' = 0
    /\ keep_last' = None
    /\ dry_run' = FALSE
    /\ fault' = "none"
    /\ result' = "Ok"
    /\ ret' = FALSE
    /\ current' = 0
    /\ all_generations' = << >>
    /\ to_delete' = << >>
    /\ delete_calls' = << >>
    /\ output' = << >>
    /\ protected_generations' = new
    /\ locked' = IF result = "Ok" /\ op = "protect" THEN locked \cup {generation}
                 ELSE IF result = "Ok" /\ op = "unprotect" THEN locked \ {generation}
                 ELSE locked
    /\ UNCHANGED << stdout, parsed, runner, file, fs, writers, env, config_path >>

\* A fresh installation: no store yet, generations listed oldest first.
InitSeq ==
    /\ OthersInit
    /\ generations \in {g \in InjSeqs(Ids) : \A i \in 1 .. (Len(g) - 1) : g[i] < g[i + 1]}
    /\ current_generation \in Ids
    /\ deleted_generations = {}
    /\ fail_on_delete \in BOOLEAN
    /\ file = NoFile
    /\ protected_generations = new
    /\ InvocationInit

NextSeq ==
    \/ Next
    \/ NextInvocation

SpecSeq == InitSeq /\ [][NextSeq]_vars

-----------------------------------------------------------------------------
(* The clean command run again and again against the same store and runner, *)
(* with no other command in between.                                        *)

\* A clean command right after a clean command.
clean_generations_again(kl, dr, flt) ==
    /\ pc = "done"
    /\ op = "clean"
    /\ pc' = "done"
    /\ clean_run(kl, dr, flt)

\* Any set of generations listed oldest first, any current id, any stored
\* set with its file written in ascending order.
InitTwice ==
    /\ OthersInit
    /\ generations \in {sort_unstable(g) : g \in InjSeqs(Ids)}
    /\ current_generation \in Ids
    /\ deleted_generations = {}
    /\ fail_on_delete \in BOOLEAN
    /\ file \in {NoFile} \cup {FileOf(sort_unstable(c)) : c \in InjSeqs(Ids)}
    /\ protected_generations = new
    /\ InvocationInit

NextTwice ==
    \/ \E kl \in KeepLastValues, dr \in BOOLEAN, flt \in CleanFaults :
           clean_generations(kl, dr, flt)
    \/ \E kl \in KeepLastValues, dr \in BOOLEAN, flt \in CleanFaults :
           clean_generations_again(kl, dr, flt)

SpecTwice == InitTwice /\ [][NextTwice]_vars

-----------------------------------------------------------------------------
(* A ProtectedState object driven through its methods, as the unit tests of *)
(* protected_state.rs do: new(), then any calls in any order.               *)

\* state.protect(g)
Protect(g) ==
    /\ op' = "protect"
    /\ generation' = g
    /\ protected_generations' = protect(protected_generations, g).set
    /\ ret' = protect(protected_generations, g).ret
    /\ result' = "Ok"
    /\ fault' = "none"
    /\ UNCHANGED others
    /\ UNCHANGED << runner, file, pc, keep_last, dry_run, current, all_generations,
                    to_delete, delete_calls, output >>

\* state.unprotect(g)
Unprotect(g) ==
    /\ op' = "unprotect"
    /\ generation' = g
    /\ protected_generations' = unprotect(protected_generations, g).set
    /\ ret' = unprotect(protected_generations, g).ret
    /\ result' = "Ok"
    /\ fault' = "none"
    /\ UNCHANGED others
    /\ UNCHANGED << runner, file, pc, keep_last, dry_run, current, all_generations,
                    to_delete, delete_calls, output >>

\* state.save_to(path): Err (flt) leaves the file at path as it was.
SaveTo(flt) ==
    /\ op' = "save_to"
    /\ fault' = flt
    /\ IF flt = "save"
       THEN /\ result' = "Err"
            /\ file' = file
       ELSE /\ result' = "Ok"
            /\ file' \in save_to(protected_generations)
    /\ UNCHANGED others
    /\ UNCHANGED << runner, protected_generations, pc, generation, keep_last, dry_run,
                    ret, current, all_generations, to_delete, delete_calls, output >>

\* state = ProtectedState::load_from(path)
LoadFrom(flt) ==
    /\ op' = "load_from"
    /\ fault' = flt
    /\ flt = "load" => file.exists
    /\ LET r == load_from_result(file, flt)
       IN  IF r.ok
           THEN /\ result' = "Ok"
                /\ protected_generations' = r.state
           ELSE /\ result' = "Err"
                /\ protected_generations' = protected_generations
    /\ UNCHANGED others
    /\ UNCHANGED << runner, file, pc, generation, keep_last, dry_run, ret, current,
                    all_generations, to_delete, delete_calls, output >>

InitState ==
    /\ OthersInit
    /\ generations = << >>
    /\ current_generation = 1
    /\ deleted_generations = {}
    /\ fail_on_delete = FALSE
    /\ file = NoFile
    /\ protected_generations = new
    /\ InvocationInit

NextState ==
    \/ \E g \in Ids : Protect(g)
    \/ \E g \in Ids : Unprotect(g)
    \/ \E flt \in {"none", "save"} : SaveTo(flt)
    \/ \E flt \in {"none", "load"} : LoadFrom(flt)

SpecState == InitState /\ [][NextState]_vars


-----------------------------------------------------------------------------
(* protected_state.rs: default_config_path. Paths are sequences of           *)
(* components; an Option is << >> or << v >>.                                *)

UserNames == {"alice", "ghost"}

\* XDG_CONFIG_HOME, SUDO_USER and HOME as std::env::var sees them, and the user
\* database as get_user_by_name and get_user_by_uid(get_current_uid()) see it.
Envs ==
    [xdg_config_home : {None, Some("/xdg"), Some("/srv/conf")},
     sudo_user       : {None} \cup {Some(u) : u \in UserNames},
     home            : {None, Some("/root"), Some("/home/bob")},
     user_by_name    : [UserNames -> {None, Some("/home/sudoer")}],
     user_by_uid     : {None, Some("/var/empty")}]

\* PathBuf::from
PathBuf(s) == << s >>

\* PathBuf::join with a relative component
join(path, component) == Append(path, component)

\* HOME first, then the user database entry of the current uid, else bail!.
get_current_user_home(e) ==
    IF e.home # None
    THEN [ok |-> TRUE, path |-> PathBuf(e.home[1])]
    ELSE IF e.user_by_uid # None
         THEN [ok |-> TRUE, path |-> PathBuf(e.user_by_uid[1])]
         ELSE [ok |-> FALSE, path |-> << >>]

\* Mutant of default_config_path: SUDO_USER is consulted before XDG_CONFIG_HOME.
default_config_path_sudo_first(e) ==
    LET home == IF e.sudo_user # None /\ e.user_by_name[e.sudo_user[1]] # None
                THEN [ok |-> TRUE, path |-> PathBuf(e.user_by_name[e.sudo_user[1]][1])]
                ELSE IF e.xdg_config_home # None
                     THEN [ok |-> FALSE, path |-> << >>]
                     ELSE get_current_user_home(e)
    IN  IF home.ok
        THEN [ok |-> TRUE,
              path |-> join(join(join(home.path, ".config"), "lock-generations"),
                            "protected.json")]
        ELSE IF e.xdg_config_home # None
             THEN [ok |-> TRUE,
                   path |-> join(join(PathBuf(e.xdg_config_home[1]), "lock-generations"),
                                 "protected.json")]
             ELSE [ok |-> FALSE, path |-> << >>]

\* XDG_CONFIG_HOME if set; else the home of the SUDO_USER user if found, else
\* get_current_user_home()?, joined with .config; then lock-generations/protected.json.
default_config_path(e) ==
    LET home == IF e.sudo_user # None
                THEN IF e.user_by_name[e.sudo_user[1]] # None
                     THEN [ok |-> TRUE,
                           path |-> PathBuf(e.user_by_name[e.sudo_user[1]][1])]
                     ELSE get_current_user_home(e)
                ELSE get_current_user_home(e)
        config_dir == IF e.xdg_config_home # None
                      THEN [ok |-> TRUE, path |-> PathBuf(e.xdg_config_home[1])]
                      ELSE IF home.ok
                           THEN [ok |-> TRUE, path |-> join(home.path, ".config")]
                           ELSE [ok |-> FALSE, path |-> << >>]
    IN  IF config_dir.ok
        THEN [ok |-> TRUE,
              path |-> join(join(config_dir.path, "lock-generations"), "protected.json")]
        ELSE [ok |-> FALSE, path |-> << >>]

\* One resolution of the storage location in the environment env.
ResolveConfigPath ==
    /\ pc = "start"
    /\ pc' = "done"
    /\ op' = "default_config_path"
    /\ config_path' = default_config_path(env)
    /\ UNCHANGED << stdout, parsed, runner, file, protected_generations, generation, keep_last, dry_run,
                    fault, result, ret, current, all_generations, to_delete,
                    delete_calls, output, fs, writers, env, locked >>

InitPath ==
    /\ generations = << >>
    /\ current_generation = 1
    /\ deleted_generations = {}
    /\ fail_on_delete = FALSE
    /\ file = NoFile
    /\ protected_generations = new
    /\ InvocationInit
    /\ fs = [inodes |-> << >>, tmp |-> 0, path |-> 0, renames |-> << >>]
    /\ writers = << >>
    /\ locked = {}
    /\ env \in Envs
    /\ config_path = [ok |-> FALSE, path |-> << >>]
    /\ stdout = << >>
    /\ parsed = << >>

NextPath == ResolveConfigPath

SpecPath == InitPath /\ [][NextPath]_vars

-----------------------------------------------------------------------------
(* protected_state.rs: save_to and load_from at the level of system calls.  *)
(* fs.inodes[i] is the byte content of inode i; fs.path and fs.tmp are the   *)
(* inodes that protected.json and protected.tmp name (0: no such file).      *)
(* A document is the JSON array's numbers followed by the closing token.     *)

EndOfDoc == 0

\* The bytes of the document whose array is contents.
document(contents) == Append(contents, EndOfDoc)

\* serde_json::from_str on bytes: Err unless they are one whole document.
parse(bytes) ==
    IF /\ Len(bytes) >= 1
       /\ bytes[Len(bytes)] = EndOfDoc
       /\ \A i \in 1 .. (Len(bytes) - 1) : bytes[i] # EndOfDoc
    THEN [ok |-> TRUE, state |-> from_str(SubSeq(bytes, 1, Len(bytes) - 1))]
    ELSE [ok |-> FALSE, state |-> new]

\* write_all at offset 0 of an open file: the bytes replace the first Len(bytes)
\* bytes of the old content, what lies beyond them stays.
write_at_start(old, bytes) ==
    IF Len(bytes) >= Len(old) THEN bytes ELSE bytes \o SubSeq(old, Len(bytes) + 1, Len(old))

\* Mutant of write_target: the document is written in place, without a temp file.
write_target_in_place == "path"

\* path.with_extension("tmp"): where fs::write puts the document.
write_target == "tmp"

\* Mutant of saved_set: the stored set is read again and merged before saving.
saved_set_merged(state, stored) == state \cup stored

\* serde_json::to_string_pretty(self): the in-memory set, whatever is stored now.
saved_set(state, stored) == state

\* What protected.json holds: none, or its bytes.
CanonicalBytes == IF fs.path = 0 THEN None ELSE Some(fs.inodes[fs.path])

\* The set a load_from of protected.json would see (empty when it does not exist).
CanonicalLoad == IF fs.path = 0 THEN [ok |-> TRUE, state |-> new] ELSE parse(fs.inodes[fs.path])

\* protect_generation, first half: load()?, state.protect(generation).
WLoad(p) ==
    /\ writers[p].pc = "load"
    /\ LET l == CanonicalLoad
           r == protect(l.state, writers[p].generation)
       IN  writers' =
               [writers EXCEPT ![p] =
                   IF ~l.ok
                   THEN [@ EXCEPT !.pc = "done", !.result = "Err"]
                   ELSE IF ~r.ret
                   THEN [@ EXCEPT !.pc = "done", !.result = "Ok", !.loaded = l.state,
                                  !.state = r.set, !.ret = FALSE,
                                  !.loaded_after = Len(fs.renames)]
                   ELSE [@ EXCEPT !.pc = "create_dir_all", !.loaded = l.state,
                                  !.state = r.set, !.ret = TRUE,
                                  !.loaded_after = Len(fs.renames)]]
    /\ UNCHANGED << stdout, parsed, runner, file, protected_generations, invocation, fs, env,
                    config_path, locked >>

\* save_to: fs::create_dir_all(parent)?, then serde_json::to_string_pretty(self)?
WCreateDirAll(p, fail) ==
    /\ writers[p].pc = "create_dir_all"
    /\ IF fail
       THEN writers' = [writers EXCEPT ![p] = [@ EXCEPT !.pc = "done", !.result = "Err"]]
       ELSE \E contents \in to_string_pretty(saved_set(writers[p].state,
                                                       CanonicalLoad.state)) :
                writers' = [writers EXCEPT ![p] =
                               [@ EXCEPT !.pc = "open", !.contents = document(contents)]]
    /\ UNCHANGED << stdout, parsed, runner, file, protected_generations, invocation, fs, env,
                    config_path, locked >>

\* fs::write(&tmp_path, contents), File::create: the file is created, or
\* truncated when it exists.
WOpen(p, fail) ==
    /\ writers[p].pc = "open"
    /\ IF fail
       THEN /\ writers' = [writers EXCEPT ![p] = [@ EXCEPT !.pc = "done", !.result = "Err"]]
            /\ fs' = fs
       ELSE IF fs[write_target] = 0
       THEN /\ fs' = [fs EXCEPT !.inodes = Append(@, << >>),
                                ![write_target] = Len(fs.inodes) + 1]
            /\ writers' = [writers EXCEPT ![p] =
                              [@ EXCEPT !.pc = "write", !.fd = Len(fs.inodes) + 1]]
       ELSE /\ fs' = [fs EXCEPT !.inodes[fs[write_target]] = << >>]
            /\ writers' = [writers EXCEPT ![p] =
                              [@ EXCEPT !.pc = "write", !.fd = fs[write_target]]]
    /\ UNCHANGED << stdout, parsed, runner, file, protected_generations, invocation, env, config_path,
                    locked >>

\* fs::write(&tmp_path, contents), write_all: all the bytes, or on failure only
\* the first n of them.
WWrite(p, fail) ==
    /\ writers[p].pc = "write"
    /\ IF fail
       THEN /\ \E n \in 0 .. (Len(writers[p].contents) - 1) :
                   fs' = [fs EXCEPT !.inodes[writers[p].fd] =
                             write_at_start(@, SubSeq(writers[p].contents, 1, n))]
            /\ writers' = [writers EXCEPT ![p] = [@ EXCEPT !.pc = "done", !.result = "Err"]]
       ELSE /\ fs' = [fs EXCEPT !.inodes[writers[p].fd] =
                         write_at_start(@, writers[p].contents)]
            /\ writers' = [writers EXCEPT ![p] = [@ EXCEPT !.pc = "rename"]]
    /\ UNCHANGED << stdout, parsed, runner, file, protected_generations, invocation, env, config_path,
                    locked >>

\* fs::rename(&tmp_path, path): atomic; Err when nothing is at tmp_path.
\* The command then prints and returns Ok.
WRename(p, fail) ==
    /\ writers[p].pc = "rename"
    /\ IF fail \/ (write_target = "tmp" /\ fs.tmp = 0)
       THEN /\ writers' = [writers EXCEPT ![p] = [@ EXCEPT !.pc = "done", !.result = "Err"]]
            /\ fs' = fs
       ELSE /\ fs' = IF write_target = "tmp"
                     THEN [fs EXCEPT !.path = fs.tmp, !.tmp = 0, !.renames = Append(@, p)]
                     ELSE [fs EXCEPT !.renames = Append(@, p)]
            /\ writers' = [writers EXCEPT ![p] = [@ EXCEPT !.pc = "done", !.result = "Ok"]]
    /\ UNCHANGED << stdout, parsed, runner, file, protected_generations, invocation, env, config_path,
                    locked >>

\* A writer before its first step.
Writer(at, generation_, state_, before) ==
    [pc |-> at, generation |-> generation_, state |-> state_, ret |-> FALSE,
     loaded |-> {}, loaded_after |-> 0, contents |-> << >>, fd |-> 0,
     result |-> "Running", before |-> before]

\* The file systems an invocation may find: protected.json missing or holding a
\* saved document, protected.tmp missing or left behind by a failed save.
StartFs ==
    {[inodes |-> << >>, tmp |-> 0, path |-> 0, renames |-> << >>]}
        \cup {[inodes |-> << document(c) >>, tmp |-> 0, path |-> 1, renames |-> << >>]
                 : c \in InjSeqs(Ids)}
        \cup {[inodes |-> << document(c), << 1 >> >>, tmp |-> 2, path |-> 1,
               renames |-> << >>] : c \in InjSeqs(Ids)}
        \cup {[inodes |-> << << 1 >> >>, tmp |-> 1, path |-> 0, renames |-> << >>]}

UnusedBySave ==
    /\ generations = << >>
    /\ current_generation = 1
    /\ deleted_generations = {}
    /\ fail_on_delete = FALSE
    /\ file = NoFile
    /\ protected_generations = new
    /\ InvocationInit
    /\ env = << >>
    /\ config_path = << >>
    /\ locked = {}
    /\ stdout = << >>
    /\ parsed = << >>

\* One state.save_to(path) of any in-memory set, any step of which may fail.
InitSave ==
    /\ UnusedBySave
    /\ fs \in StartFs
    /\ \E set \in SUBSET Ids :
           writers = [p \in {1} |->
                         Writer("create_dir_all", 1, set,
                                IF fs.path = 0 THEN None ELSE Some(fs.inodes[fs.path]))]

NextSave ==
    \/ \E fail \in BOOLEAN : WCreateDirAll(1, fail)
    \/ \E fail \in BOOLEAN : WOpen(1, fail)
    \/ \E fail \in BOOLEAN : WWrite(1, fail)
    \/ \E fail \in BOOLEAN : WRename(1, fail)

SpecSave == InitSave /\ [][NextSave]_vars

\* Two protect commands started against the same store, their system calls
\* interleaved in any order; no I/O failure is injected.
ConcWriters == {1, 2}

InitConc ==
    /\ UnusedBySave
    /\ fs \in StartFs
    /\ \E g \in [ConcWriters -> Ids] :
           writers = [p \in ConcWriters |->
                         Writer("load", g[p], new,
                                IF fs.path = 0 THEN None ELSE Some(fs.inodes[fs.path]))]

NextConc ==
    \/ \E p \in ConcWriters : WLoad(p)
    \/ \E p \in ConcWriters : WCreateDirAll(p, FALSE)
    \/ \E p \in ConcWriters : WOpen(p, FALSE)
    \/ \E p \in ConcWriters : WWrite(p, FALSE)
    \/ \E p \in ConcWriters : WRename(p, FALSE)

SpecConc == InitConc /\ [][NextConc]_vars

-----------------------------------------------------------------------------
(* real_runner.rs: parsing the output of nix-env --list-generations.        *)
(* A line is the sequence of its whitespace-delimited tokens; a token is a  *)
(* decimal u32 ("number"), text containing "(current)" ("marker"), or other *)
(* text ("word", which includes digits too large for u32).                  *)

MaxLines == 2

Number(n) == [kind |-> "number", number |-> n]

Word == [kind |-> "word", number |-> 0]

Marker == [kind |-> "marker", number |-> 0]

\* Lines of up to two tokens, the empty line included.
Lines ==
    LET First == {Number(n) : n \in Ids} \cup {Word, Marker}
    IN  {<< >>} \cup {<< a >> : a \in First}
            \cup {<< a, b >> : a \in First, b \in {Word, Marker}}

Stdouts == UNION {[1 .. n -> Lines] : n \in 0 .. MaxLines}

\* number_str.parse::<u32>()
parse_u32(token) == IF token.kind = "number" THEN Some(token.number) ELSE None

\* line.trim().split_whitespace().next()
first_token(line) == IF line = << >> THEN None ELSE Some(line[1])

\* line.contains("(current)")
contains_current(line) == \E i \in 1 .. Len(line) : line[i].kind = "marker"

\* The number a line starts with, if it starts with one.
leading_number(line) ==
    IF first_token(line) = None THEN None ELSE parse_u32(first_token(line)[1])

\* for line in stdout.lines(): skip the empty ones, push the parsed first token.
RECURSIVE real_list_generations(_)
real_list_generations(lines) ==
    IF lines = << >>
    THEN << >>
    ELSE LET line == Head(lines)
             rest == real_list_generations(Tail(lines))
         IN  IF line = << >>
             THEN rest
             ELSE IF leading_number(line) # None
                  THEN << Generation(leading_number(line)[1]) >> \o rest
                  ELSE rest

\* Mutant of real_get_current_generation: without a marker, the last line counts.
RECURSIVE real_get_current_generation_or_any(_)
real_get_current_generation_or_any(lines) ==
    IF lines = << >>
    THEN [ok |-> FALSE, number |-> 0]
    ELSE IF leading_number(Head(lines)) # None
                /\ (contains_current(Head(lines)) \/ Len(lines) = 1)
         THEN [ok |-> TRUE, number |-> leading_number(Head(lines))[1]]
         ELSE real_get_current_generation_or_any(Tail(lines))

\* The first line with the marker whose first token parses; bail! when none.
RECURSIVE real_get_current_generation(_)
real_get_current_generation(lines) ==
    IF lines = << >>
    THEN [ok |-> FALSE, number |-> 0]
    ELSE IF contains_current(Head(lines)) /\ leading_number(Head(lines)) # None
         THEN [ok |-> TRUE, number |-> leading_number(Head(lines))[1]]
         ELSE real_get_current_generation(Tail(lines))

\* RealNixOsRunner::list_generations; success is nix-env's exit status.
RealListGenerations(success) ==
    /\ parsed = << >>
    /\ parsed' = IF success
                 THEN [op |-> "list", success |-> TRUE, ok |-> TRUE, number |-> 0,
                       generations |-> real_list_generations(stdout)]
                 ELSE [op |-> "list", success |-> FALSE, ok |-> FALSE, number |-> 0,
                       generations |-> << >>]
    /\ UNCHANGED << stdout, runner, file, protected_generations, invocation, fs, writers,
                    env, config_path, locked >>

\* RealNixOsRunner::get_current_generation
RealGetCurrentGeneration(success) ==
    /\ parsed = << >>
    /\ LET r == real_get_current_generation(stdout)
       IN  parsed' = IF success
                     THEN [op |-> "current", success |-> TRUE, ok |-> r.ok,
                           number |-> r.number, generations |-> << >>]
                     ELSE [op |-> "current", success |-> FALSE, ok |-> FALSE,
                           number |-> 0, generations |-> << >>]
    /\ UNCHANGED << stdout, runner, file, protected_generations, invocation, fs, writers,
                    env, config_path, locked >>

\* One query of the real runner over any output of the collaborator.
InitReal ==
    /\ generations = << >>
    /\ current_generation = 1
    /\ deleted_generations = {}
    /\ fail_on_delete = FALSE
    /\ file = NoFile
    /\ protected_generations = new
    /\ InvocationInit
    /\ fs = [inodes |-> << >>, tmp |-> 0, path |-> 0, renames |-> << >>]
    /\ writers = << >>
    /\ env = << >>
    /\ config_path = << >>
    /\ locked = {}
    /\ stdout \in Stdouts
    /\ parsed = << >>

NextReal ==
    \/ \E success \in BOOLEAN : RealListGenerations(success)
    \/ \E success \in BOOLEAN : RealGetCurrentGeneration(success)

SpecReal == InitReal /\ [][NextReal]_vars

-----------------------------------------------------------------------------
(* Properties of one clean run (Spec).                                      *)

\* The clean command ran and its three queries (load, get_current_generation,
\* list_generations) succeeded.
CleanRan == pc = "done" /\ op = "clean" /\ fault = "none"

\* The ids list_generations returned in the run.
Listed == {all_generations[i].number : i \in 1 .. Len(all_generations)}

\* The protected ids in the store (clean never writes the store).
Stored == IF file.exists THEN {file.contents[i] : i \in 1 .. Len(file.contents)} ELSE {}

\* Every id handed to delete_generations in the run.
Handed == UNION {{delete_calls[i][j] : j \in 1 .. Len(delete_calls[i])}
                    : i \in 1 .. Len(delete_calls)}

\* The ids the run selected for deletion.
Selected == {to_delete[i] : i \in 1 .. Len(to_delete)}

\* The n numerically largest members of S (all of S when n >= |S|).
Largest(S, n) == {x \in S : Cardinality({y \in S : y > x}) < n}

\* The n largest listed ids when keep_last = n, nothing when keep_last is absent.
LastN == IF keep_last = None THEN {} ELSE Largest(Listed, keep_last[1])

\* The retain-set of the run: current, protected, and the last n.
Retained == {current} \cup Stored \cup LastN

\* C1: the ids clean hands to delete_generations (and the decision it computes)
\* never contain the current generation, for every list, store, keep_last and
\* dry-run setting, also when the current generation is itself protected.
C1_CurrentNeverDeleted ==
    (pc = "done" /\ op = "clean") =>
        /\ current_generation \notin Handed
        /\ current_generation \notin Selected

\* A non-dry run that handed ids to delete_generations while the current
\* generation was listed and also in the protected set.
C1_Witness ==
    /\ CleanRan
    /\ ~dry_run
    /\ Handed # {}
    /\ current_generation \in Listed
    /\ current_generation \in Stored

\* C2: no id of the protected set loaded from the store is handed to
\* delete_generations, whatever keep_last is and however old the id is.
C2_ProtectedNeverDeleted ==
    (pc = "done" /\ op = "clean") => Stored \cap (Handed \cup Selected) = {}

\* A run with keep_last = n that deleted an id newer than a protected, listed id
\* which is neither current nor among the last n.
C2_Witness ==
    /\ CleanRan
    /\ keep_last # None
    /\ \E p \in Stored \cap Listed, d \in Handed :
           /\ p < d
           /\ p # current
           /\ p \notin Largest(Listed, keep_last[1])

\* C3: with keep_last = n, none of the n numerically largest listed ids is handed
\* to delete_generations, protected or not, also for sparse ids.
C3_LastNNeverDeleted ==
    (CleanRan /\ keep_last # None) =>
        Largest(Listed, keep_last[1]) \cap (Handed \cup Selected) = {}

\* keep_last = n >= 1 over a sparse, unordered list; one of the last n is neither
\* protected nor current, and an older id was deleted.
C3_Witness ==
    /\ CleanRan
    /\ keep_last # None
    /\ keep_last[1] >= 1
    /\ Handed # {}
    /\ \E i \in 1 .. (Len(all_generations) - 1) :
           all_generations[i].number > all_generations[i + 1].number
    /\ \E x \in Listed : x + 1 \notin Listed /\ \E y \in Listed : y > x + 1
    /\ \E k \in Largest(Listed, keep_last[1]) : k \notin Stored /\ k # current

\* C4: every id handed to delete_generations is one list_generations returned in
\* the same run; an id that is only protected or only current is never targeted.
C4_DeletedAreListed ==
    (pc = "done" /\ op = "clean") => (Handed \cup Selected) \subseteq Listed

\* Ids were deleted while the current id and a protected id were not listed.
C4_Witness ==
    /\ CleanRan
    /\ Handed # {}
    /\ current \notin Listed
    /\ \E p \in Stored : p \notin Listed /\ p # current

\* C5: the selected set is exactly the listed ids minus the retain-set ({current},
\* the protected ids, the n largest listed ids when keep_last = n); the ids handed
\* to delete_generations are that selection; protected ids that are not listed
\* change nothing and cause no failure.
C5_ExactDecision ==
    CleanRan =>
        /\ result # "Panic"
        /\ Selected = Listed \ Retained
        /\ Selected = Listed \ ({current} \cup (Stored \cap Listed) \cup LastN)
        /\ \A i \in 1 .. Len(delete_calls) : delete_calls[i] = to_delete

\* A run with keep_last = n >= 1 and a protected id that is not listed, in which
\* something was deleted and a listed id was spared by each of the three rules.
C5_Witness ==
    /\ CleanRan
    /\ keep_last # None
    /\ keep_last[1] >= 1
    /\ Stored \ Listed # {}
    /\ Handed # {}
    /\ Listed \cap Retained # {}

\* C6: with keep_last = n and n >= the number of listed generations the run
\* succeeds, selects nothing, never calls delete_generations and deletes nothing.
C6_KeepLastSaturates ==
    (CleanRan /\ keep_last # None /\ keep_last[1] >= Len(all_generations)) =>
        /\ result = "Ok"
        /\ to_delete = << >>
        /\ delete_calls = << >>
        /\ list_generations = all_generations

\* keep_last strictly exceeds the number of listed generations, some of which are
\* neither current nor protected.
C6_Witness ==
    /\ CleanRan
    /\ ~dry_run
    /\ keep_last # None
    /\ keep_last[1] > Len(all_generations)
    /\ Listed \ ({current} \cup Stored) # {}

\* C7: keep_last = 0 selects exactly what keep_last absent selects on the same
\* list, current generation and store: all listed ids but current and protected.
C7_KeepZeroIsNone ==
    (CleanRan /\ keep_last = Some(0)) =>
        /\ to_delete =
               filter_not_kept(gen_numbers_of(all_generations),
                               keep(current, load_from(file),
                                    keep_last_slice(gen_numbers_of(all_generations),
                                                    None).val))
        /\ Selected = Listed \ ({current} \cup Stored)

\* keep_last = 0 on a list whose largest id is neither current nor protected: it
\* is deleted.
C7_Witness ==
    /\ CleanRan
    /\ keep_last = Some(0)
    /\ \E x \in Handed : \A y \in Listed : y <= x

\* C8: a dry run never calls delete_generations and leaves the runner's existing
\* generations as they were, whether or not it fails; the decision it computes
\* and prints is the one a non-dry run hands to delete_generations: the listed
\* ids outside the retain-set, in ascending order.
C8_DryRunDeletesNothing ==
    [][(pc = "start" /\ op' = "clean" /\ dry_run') =>
           /\ delete_calls' = << >>
           /\ deleted_generations' = deleted_generations
           /\ list_generations' = list_generations
           /\ generations' = generations
           /\ fault' = "none" =>
                  /\ Selected' = Listed' \ Retained'
                  /\ to_delete' # << >> => output' = to_delete']_vars

\* A dry run whose decision is not empty, on a runner that would have deleted.
C8_Witness ==
    /\ CleanRan
    /\ dry_run
    /\ ~fail_on_delete
    /\ to_delete # << >>
    /\ delete_calls = << >>
    /\ deleted_generations = {}

\* C18: a successful protect(id) command leaves the store holding the previously
\* stored set plus id, a successful unprotect(id) command the previously stored
\* set minus id; the in-memory set at the end equals the stored one; a command
\* that changes nothing (already protected, not protected) does not write the file.
C18_MutationsArePersisted ==
    [][(pc = "start" /\ op' \in {"protect", "unprotect"} /\ result' = "Ok") =>
           /\ op' = "protect" => Stored' = Stored \cup {generation'}
           /\ op' = "unprotect" => Stored' = Stored \ {generation'}
           /\ protected_generations' = Stored'
           /\ ret' => file'.exists
           /\ ~ret' => file' = file]_vars

\* A protect command added an id to a store that already held another one.
C18_Witness ==
    /\ pc = "done"
    /\ op = "protect"
    /\ result = "Ok"
    /\ ret
    /\ generation \in Stored
    /\ Stored \ {generation} # {}

\* C19: whenever nothing is to be deleted (every listed id is current, protected
\* or among the last n) clean returns Ok, its decision is empty and it does not
\* call delete_generations at all.
C19_EmptyDecisionIsOk ==
    (CleanRan /\ Listed \subseteq Retained) =>
        /\ result = "Ok"
        /\ to_delete = << >>
        /\ delete_calls = << >>

\* A non-dry run without keep_last on a runner whose delete_generations would
\* fail: the listed ids are the current one and protected ones.
C19_Witness ==
    /\ CleanRan
    /\ ~dry_run
    /\ fail_on_delete
    /\ keep_last = None
    /\ result = "Ok"
    /\ current \in Listed
    /\ Listed \ {current} # {}
    /\ Listed \subseteq Retained

\* C20: a clean run whose load, get_current_generation or list_generations fails
\* returns Err without calling delete_generations; a run whose delete_generations
\* call fails returns Err having called it exactly once (no retry), and nothing is
\* deleted in either case.
C20_FailuresEndTheRun ==
    (pc = "done" /\ op = "clean") =>
        /\ fault # "none" =>
               /\ result = "Err"
               /\ delete_calls = << >>
               /\ deleted_generations = {}
        /\ Len(delete_calls) <= 1
        /\ (fault = "none" /\ ~dry_run /\ fail_on_delete /\ ~(Listed \subseteq Retained)) =>
               /\ result = "Err"
               /\ Len(delete_calls) = 1
               /\ deleted_generations = {}

\* delete_generations failed on a non-empty decision.
C20_Witness ==
    /\ CleanRan
    /\ fail_on_delete
    /\ result = "Err"
    /\ Len(delete_calls) = 1
    /\ to_delete # << >>

-----------------------------------------------------------------------------
(* Properties of the ProtectedState methods (SpecState).                    *)

\* C9: protect(id) returns true exactly when id was not in the set before the
\* call; either way id is in the set afterwards and every other member is as it
\* was; a protect(id) right after a protect(id) returns false.
C9_ProtectReturnsNewlyInserted ==
    [][op' = "protect" =>
           /\ ret' = (generation' \notin protected_generations)
           /\ generation' \in protected_generations'
           /\ \A g \in Ids \ {generation'} :
                  (g \in protected_generations') = (g \in protected_generations)
           /\ (op = "protect" /\ generation = generation') => ~ret']_vars

\* protect(id) returned false on a set that holds id and another member.
C9_Witness ==
    /\ op = "protect"
    /\ ~ret
    /\ generation \in protected_generations
    /\ protected_generations \ {generation} # {}

\* C10: unprotect(id) returns true exactly when id was in the set before the
\* call; either way id is absent afterwards and every other member is as it was;
\* on an id that is not protected it returns false and leaves the set unchanged.
C10_UnprotectReturnsWasPresent ==
    [][op' = "unprotect" =>
           /\ ret' = (generation' \in protected_generations)
           /\ generation' \notin protected_generations'
           /\ \A g \in Ids \ {generation'} :
                  (g \in protected_generations') = (g \in protected_generations)
           /\ generation' \notin protected_generations =>
                  ~ret' /\ protected_generations' = protected_generations]_vars

\* unprotect(id) returned true and left another member in the set.
C10_Witness ==
    /\ op = "unprotect"
    /\ ret
    /\ generation \notin protected_generations
    /\ protected_generations # {}

\* C11: a successful save_to of any set S, the empty set included, followed
\* directly by a successful load_from of the same path gives a set equal to S, and
\* the load leaves the file as saved.
C11_SaveLoadRoundTrip ==
    [][(op = "save_to" /\ result = "Ok" /\ op' = "load_from" /\ result' = "Ok") =>
           /\ protected_generations' = protected_generations
           /\ file' = file]_vars

\* A load returned a set of two or more ids from a saved file.
C11_Witness ==
    /\ op = "load_from"
    /\ result = "Ok"
    /\ file.exists
    /\ Cardinality(protected_generations) >= 2
    /\ protected_generations = Stored

\* C12: load_from on a path that does not exist returns Ok with the empty set and
\* creates nothing at the path.
C12_LoadMissingIsEmpty ==
    [][(op' = "load_from" /\ ~file.exists) =>
           /\ result' = "Ok"
           /\ protected_generations' = {}
           /\ ~file'.exists]_vars

\* A load of a missing path, after an earlier protect or unprotect call, gave the empty set.
C12_Witness ==
    /\ op = "load_from"
    /\ result = "Ok"
    /\ ~file.exists
    /\ protected_generations = {}
    /\ generation \in Ids

-----------------------------------------------------------------------------
(* Properties of the storage location (SpecPath).                           *)

StoreFile(dir) == dir \o << "lock-generations", "protected.json" >>

\* C16: the storage location is resolved by strict priority. With
\* XDG_CONFIG_HOME set it is under that directory, whatever SUDO_USER and HOME
\* are; otherwise, with SUDO_USER naming a user of the user database, under that
\* user's home .config; otherwise under the invoking user's home .config, the
\* home taken from HOME when set and from the user database entry of the current
\* uid when not; the resolution fails only when none of these gives a directory.
C16_LocationPriority ==
    (pc = "done" /\ op = "default_config_path") =>
        IF env.xdg_config_home # None
        THEN config_path = [ok |-> TRUE, path |-> StoreFile(<< env.xdg_config_home[1] >>)]
        ELSE IF env.sudo_user # None /\ env.user_by_name[env.sudo_user[1]] # None
        THEN config_path =
                 [ok |-> TRUE,
                  path |-> StoreFile(<< env.user_by_name[env.sudo_user[1]][1], ".config" >>)]
        ELSE IF env.home # None
        THEN config_path = [ok |-> TRUE, path |-> StoreFile(<< env.home[1], ".config" >>)]
        ELSE IF env.user_by_uid # None
        THEN config_path =
                 [ok |-> TRUE, path |-> StoreFile(<< env.user_by_uid[1], ".config" >>)]
        ELSE ~config_path.ok

\* Under sudo with XDG_CONFIG_HOME unset and HOME set: the path is under the home
\* of the SUDO_USER user, not under HOME.
C16_Witness ==
    /\ pc = "done"
    /\ op = "default_config_path"
    /\ env.xdg_config_home = None
    /\ env.sudo_user = Some("alice")
    /\ env.user_by_name["alice"] # None
    /\ env.home = Some("/root")
    /\ config_path.ok
    /\ config_path.path[1] = "/home/sudoer"

\* C22: a list command that succeeds prints the stored ids in strictly
\* ascending order, each exactly once and nothing else, whatever order the
\* store file holds them in and whatever order the set is iterated in.
C22_ListIsAscending ==
    (pc = "done" /\ op = "list" /\ result = "Ok") =>
        /\ \A i \in 1 .. (Len(output) - 1) : output[i] < output[i + 1]
        /\ Range(output) = Stored
        /\ Len(output) = Cardinality(Stored)

\* A list command over a store file that holds every id, not in ascending order.
C22_Witness ==
    /\ pc = "done"
    /\ op = "list"
    /\ result = "Ok"
    /\ Len(output) = MaxId
    /\ file.exists
    /\ file.contents # output

\* C23: a clean run, dry or not, successful or failed, leaves the store file
\* and therefore the stored protected set exactly as it was before the run.
C23_CleanLeavesStore ==
    [][(pc = "start" /\ op' = "clean") => (file' = file /\ Stored' = Stored)]_vars

\* A clean that deleted a generation while the store held a protected id that
\* is not among the listed generations.
C23_Witness ==
    /\ CleanRan
    /\ result = "Ok"
    /\ deleted_generations # {}
    /\ Stored \ Listed # {}

\* kl retains at least as many of the newest generations as the run's keep_last.
AtLeastKeepLast(kl) == keep_last = None \/ (kl # None /\ kl[1] >= keep_last[1])

StrictlyAscending(s) == \A i \in 1 .. (Len(s) - 1) : s[i] < s[i + 1]

\* C25: for the listing and current generation of a clean run, the decision
\* for any larger protected set and any equal or raised keep_last (absent
\* counting as lowest) selects no id the run did not select; and the ids the
\* run selected and handed to delete_generations are in strictly ascending
\* order whatever order list_generations reported them in.
C25_DecisionIsMonotone ==
    CleanRan =>
        LET gen_numbers == gen_numbers_of(all_generations)
        IN  /\ \A kl \in {k \in KeepLastValues : AtLeastKeepLast(k)} :
                   LET last == keep_last_slice(gen_numbers, kl).val
                   IN  \A more \in SUBSET (Ids \ protected_generations) :
                           Range(filter_not_kept(gen_numbers,
                                     keep(current, protected_generations \cup more, last)))
                               \subseteq Selected
            /\ to_delete = filter_not_kept(gen_numbers,
                               keep(current, protected_generations,
                                    keep_last_slice(gen_numbers, keep_last).val))
            /\ StrictlyAscending(to_delete)
            /\ \A i \in 1 .. Len(delete_calls) : StrictlyAscending(delete_calls[i])

\* A run over a listing reported out of order that handed at least two ids to
\* delete_generations, one of which a larger protected set would spare and
\* another of which a raised keep_last would spare.
C25_Witness ==
    /\ CleanRan
    /\ ~StrictlyAscending(gen_numbers_unsorted(all_generations))
    /\ Len(delete_calls) = 1
    /\ Len(delete_calls[1]) >= 2
    /\ LET gen_numbers == gen_numbers_of(all_generations)
       IN  /\ \E g \in Selected :
                  Range(filter_not_kept(gen_numbers,
                            keep(current, protected_generations \cup {g},
                                 keep_last_slice(gen_numbers, keep_last).val)))
                      = Selected \ {g}
           /\ \E kl \in KeepLastValues :
                  /\ AtLeastKeepLast(kl)
                  /\ Range(filter_not_kept(gen_numbers,
                               keep(current, protected_generations,
                                    keep_last_slice(gen_numbers, kl).val)))
                         # Selected

-----------------------------------------------------------------------------
(* Properties of repeated clean runs (SpecTwice).                           *)

-----------------------------------------------------------------------------
(* Properties of one save_to (SpecSave).                                    *)

\* C13: during one save_to with no other invocation, protected.json holds at
\* every step either exactly what it held before or the complete new document;
\* a save that failed at any step returned Err and left protected.json as it
\* was; a save that returned Ok left the saved set there.
C13_SaveIsAllOrNothing ==
    \A p \in DOMAIN writers :
        LET w == writers[p]
        IN  /\ \/ CanonicalBytes = w.before
               \/ /\ CanonicalBytes = Some(w.contents)
                  /\ parse(w.contents).ok
                  /\ parse(w.contents).state = w.state
            /\ w.result = "Err" => CanonicalBytes = w.before
            /\ (w.pc = "done" /\ CanonicalBytes # w.before) => w.result = "Ok"
            /\ w.result = "Ok" =>
                   /\ CanonicalLoad.ok
                   /\ CanonicalLoad.state = w.state
                   /\ fs.tmp = 0

\* The write of the temp file failed half way over an existing document: Err,
\* a partial temp file left behind, protected.json as before.
C13_Witness ==
    /\ writers[1].result = "Err"
    /\ fs.path # 0
    /\ fs.tmp # 0
    /\ fs.inodes[fs.tmp] # << >>
    /\ ~parse(fs.inodes[fs.tmp]).ok
    /\ Len(fs.inodes[fs.tmp]) < Len(writers[1].contents)
    /\ parse(fs.inodes[fs.path]).state # writers[1].state

-----------------------------------------------------------------------------
(* Properties of two concurrent protect commands (SpecConc).                *)

\* C14: with two invocations saving to the same location concurrently,
\* protected.json, whenever it exists, holds a complete document, and once a
\* rename has happened that document is one a writer intended to save.
C14_NeverPartiallyWritten ==
    fs.path # 0 =>
        /\ parse(fs.inodes[fs.path]).ok
        /\ fs.renames # << >> =>
               \E p \in DOMAIN writers : fs.inodes[fs.path] = writers[p].contents

\* C15: when two protect commands for different ids both loaded the stored set
\* before any rename, both inserted and both returned Ok, the stored set is the
\* loaded set plus the id of the command that renamed last, and the id of the
\* command that renamed first is not in it.
C15_LastRenameWins ==
    ( /\ \A p \in DOMAIN writers :
             /\ writers[p].pc = "done"
             /\ writers[p].result = "Ok"
             /\ writers[p].ret
             /\ writers[p].loaded_after = 0
      /\ DOMAIN writers = ConcWriters
      /\ writers[1].generation # writers[2].generation )
    => /\ Len(fs.renames) = 2
       /\ writers[1].loaded = writers[2].loaded
       /\ CanonicalLoad.ok
       /\ CanonicalLoad.state =
              writers[1].loaded \cup {writers[fs.renames[2]].generation}
       /\ writers[fs.renames[1]].generation \notin CanonicalLoad.state

\* Both commands loaded the same non-empty set, both saved and returned Ok, and
\* the store has lost the id of the one that renamed first.
C15_Witness ==
    /\ DOMAIN writers = ConcWriters
    /\ \A p \in ConcWriters :
           /\ writers[p].pc = "done"
           /\ writers[p].result = "Ok"
           /\ writers[p].ret
           /\ writers[p].loaded_after = 0
    /\ writers[1].generation # writers[2].generation
    /\ writers[1].loaded # {}
    /\ Len(fs.renames) = 2
    /\ writers[fs.renames[1]].generation \notin CanonicalLoad.state
    /\ writers[fs.renames[2]].generation \in CanonicalLoad.state

-----------------------------------------------------------------------------
(* Properties of command sequences (SpecSeq).                               *)

\* C17: in any sequence of commands run one at a time, a clean command hands
\* no id to the runner for deletion (and selects none, dry run or not) whose
\* last successful protect or unprotect command was a protect.
C17_ProtectedUntilUnprotected ==
    (pc = "done" /\ op = "clean") => (Handed \cup Selected) \cap locked = {}

\* A clean deleted a generation newer than a listed, non-current generation
\* that an earlier protect command had protected.
C17_Witness ==
    /\ pc = "done"
    /\ op = "clean"
    /\ result = "Ok"
    /\ \E l \in locked \cap Listed :
           /\ l # current
           /\ \E h \in Handed : h > l /\ h \in deleted_generations

-----------------------------------------------------------------------------
(* Properties of the real runner's queries (SpecReal).                      *)

\* The lines of stdout that start with a number, in output order.
StartingWithNumber == SelectSeq(stdout, LAMBDA line : leading_number(line) # None)

\* C21: get_current_generation, when it returns a number, returns the leading
\* integer of a line carrying the current marker (the first such line that
\* starts with an integer), and returns Err whenever no line carries the
\* marker; list_generations, when nix-env succeeded, returns in output order
\* the leading integer of every line that starts with one and nothing else.
C21_ParsesCollaboratorOutput ==
    /\ (parsed # << >> /\ parsed.op = "current") =>
           /\ parsed.ok =>
                  \E i \in 1 .. Len(stdout) :
                      /\ contains_current(stdout[i])
                      /\ leading_number(stdout[i]) = Some(parsed.number)
                      /\ \A j \in 1 .. (i - 1) :
                             ~(contains_current(stdout[j])
                                 /\ leading_number(stdout[j]) # None)
           /\ (\A i \in 1 .. Len(stdout) : ~contains_current(stdout[i])) => ~parsed.ok
    /\ (parsed # << >> /\ parsed.op = "list" /\ parsed.success) =>
           /\ parsed.ok
           /\ parsed.generations =
                  [i \in 1 .. Len(StartingWithNumber) |->
                      Generation(leading_number(StartingWithNumber[i])[1])]

\* get_current_generation returned Err over an output whose lines all start
\* with a number but of which none carries the marker.
C21_Witness ==
    /\ parsed # << >>
    /\ parsed.op = "current"
    /\ parsed.success
    /\ ~parsed.ok
    /\ Len(stdout) = MaxLines
    /\ \A i \in 1 .. Len(stdout) :
           leading_number(stdout[i]) # None /\ ~contains_current(stdout[i])

=============================================================================
